---------------------------- MODULE Spec2Model ----------------------------
(***************************************************************************)
(* Model of src/periods.py: add_months, parse_period and generate_months.  *)
(*                                                                         *)
(* Python values are represented as follows.                               *)
(*   str       a sequence of one-character strings, <<"2","0","2","5">>    *)
(*   None      the one-element sequence <<"None">>, which is no str        *)
(*   datetime  a record [year, month, day, time], time in seconds of day   *)
(*   a raised exception   a record [exc |-> type, msg |-> message]         *)
(***************************************************************************)
EXTENDS Integers, Sequences, FiniteSets, TLC

VARIABLES
    pc,          \* position of the running call
    dt,          \* add_months: argument dt
    delta,       \* add_months: argument months
    res,         \* add_months(dt, delta)
    back,        \* add_months(res, -delta)
    period,      \* parse_period: argument period
    now,         \* the clock: what datetime.now() returns to the call
    parsed,      \* parse_period: returned tuple or raised exception
    start_date,  \* generate_months: argument start_date
    end_date,    \* generate_months: argument end_date
    start,       \* generate_months: local start
    end,         \* generate_months: local end
    current,     \* generate_months: local current
    months       \* generate_months: local months

vars == <<pc, dt, delta, res, back, period, now, parsed,
          start_date, end_date, start, end, current, months>>

-----------------------------------------------------------------------------
(* Bounds of the model.                                                    *)
(*   YearLo, NumYears   the years YearLo..YearLo+NumYears-1 dates are      *)
(*                      drawn from, besides MINYEAR and MAXYEAR            *)
(*   MaxOffset          add_months is called with -MaxOffset..MaxOffset    *)
(*   MaxSpan            start and end of generate_months are at most this  *)
(*                      many months apart                                  *)
(*   MaxTokLen          the longest period built from TokChars             *)

YearLo == 2023
NumYears == 2
MaxOffset == 14
MaxSpan == 13
MaxTokLen == 7

-----------------------------------------------------------------------------
(* The value of a variable no step has assigned yet.                       *)
Unset == [unset |-> TRUE]

None == <<"None">>

Raise(type, msg) == [exc |-> type, msg |-> msg]

Raised(v) == "exc" \in DOMAIN v

-----------------------------------------------------------------------------
(* datetime: the proleptic Gregorian calendar of Python's datetime.        *)

MINYEAR == 1
MAXYEAR == 9999

IsLeap(y) == (y % 4 = 0 /\ y % 100 # 0) \/ y % 400 = 0

DaysInMonth(y, m) ==
    IF m = 2 THEN (IF IsLeap(y) THEN 29 ELSE 28)
    ELSE IF m \in {4, 6, 9, 11} THEN 30 ELSE 31

\* The check of the datetime constructor and of datetime.replace: outside
\* it they raise ValueError.
ValidDate(y, m, d) ==
    /\ y \in MINYEAR..MAXYEAR
    /\ m \in 1..12
    /\ d \in 1..DaysInMonth(y, m)

DateTime(y, m, d, t) == [year |-> y, month |-> m, day |-> d, time |-> t]

\* Comparison of two datetimes (current <= end).
DateLeq(a, b) ==
    \/ a.year < b.year
    \/ a.year = b.year /\ a.month < b.month
    \/ a.year = b.year /\ a.month = b.month /\ a.day < b.day
    \/ a.year = b.year /\ a.month = b.month /\ a.day = b.day /\ a.time <= b.time

-----------------------------------------------------------------------------
(* add_months                                                              *)

\* Python's // on a positive divisor is floor division, as is \div.
FloorDiv(a, b) == a \div b

\* Python's % on a positive divisor is non-negative, as is %.
PyMod(a, b) == a % b

\* A division that truncates towards zero, as C's does.
TruncDiv(a, b) == IF a >= 0 THEN a \div b ELSE -((-a) \div b)

\* The loop of lines 21-27: the first day from `day` downwards that
\* dt.replace accepts, 0 when the day falls below 1 and the error is re-raised.
RECURSIVE ClampDay(_, _, _)
ClampDay(year, month, day) ==
    IF ValidDate(year, month, day) THEN day
    ELSE IF day - 1 < 1 THEN 0
    ELSE ClampDay(year, month, day - 1)

\* A clamping loop that gives up at the first rejected day.
NoClampDay(year, month, day) ==
    IF ValidDate(year, month, day) THEN day ELSE 0

\* The ValueError that escapes at line 27: the one dt.replace raised for day 1.
ReplaceError(year, month) ==
    IF year \notin MINYEAR..MAXYEAR
    THEN Raise("ValueError", "year is out of range")
    ELSE Raise("ValueError", "day is out of range for month")

\* add_months with the year computed by a truncating division.
add_months_trunc(d, k) ==
    LET month0 == d.month - 1 + k
        year == d.year + TruncDiv(month0, 12)
        month == PyMod(month0, 12) + 1
        day == ClampDay(year, month, d.day)
    IN  IF day = 0 THEN ReplaceError(year, month)
        ELSE [d EXCEPT !.year = year, !.month = month, !.day = day]

\* add_months that does not retry with a smaller day.
add_months_noclamp(d, k) ==
    LET month0 == d.month - 1 + k
        year == d.year + FloorDiv(month0, 12)
        month == PyMod(month0, 12) + 1
        day == NoClampDay(year, month, d.day)
    IN  IF day = 0 THEN ReplaceError(year, month)
        ELSE [d EXCEPT !.year = year, !.month = month, !.day = day]

\* add_months that lets the surplus days run over into the next month.
add_months_overflow(d, k) ==
    LET month0 == d.month - 1 + k
        year == d.year + FloorDiv(month0, 12)
        month == PyMod(month0, 12) + 1
        last == DaysInMonth(year, month)
    IN  IF year \notin MINYEAR..MAXYEAR THEN ReplaceError(year, month)
        ELSE IF d.day <= last
        THEN [d EXCEPT !.year = year, !.month = month, !.day = d.day]
        ELSE IF month = 12 /\ year = MAXYEAR THEN ReplaceError(year + 1, 1)
        ELSE [d EXCEPT !.year = IF month = 12 THEN year + 1 ELSE year,
                       !.month = IF month = 12 THEN 1 ELSE month + 1,
                       !.day = d.day - last]

\* Lines 14-27. dt.replace keeps the time of day.
add_months(d, k) ==
    LET month0 == d.month - 1 + k
        year == d.year + FloorDiv(month0, 12)
        month == PyMod(month0, 12) + 1
        day == ClampDay(year, month, d.day)
    IN  IF day = 0 THEN ReplaceError(year, month)
        ELSE [d EXCEPT !.year = year, !.month = month, !.day = day]

-----------------------------------------------------------------------------
(* Calls of add_months(dt, delta) followed by add_months(res, -delta).     *)

AddYears == (YearLo..(YearLo + NumYears - 1)) \cup {MINYEAR, MAXYEAR}

AddDates ==
    {DateTime(y, m, d, 0) : <<y, m, d>> \in
        {t \in AddYears \X (1..12) \X (1..31) : ValidDate(t[1], t[2], t[3])}}

InitAdd ==
    /\ pc = "call"
    /\ dt \in AddDates
    /\ delta \in (-MaxOffset)..MaxOffset
    /\ res = Unset
    /\ back = Unset
    /\ period = Unset /\ now = Unset /\ parsed = Unset
    /\ start_date = Unset /\ end_date = Unset
    /\ start = Unset /\ end = Unset /\ current = Unset /\ months = Unset

AddMonths ==
    /\ pc = "call"
    /\ res' = add_months(dt, delta)
    /\ pc' = IF Raised(res') THEN "raised" ELSE "added"
    /\ UNCHANGED <<dt, delta, back, period, now, parsed,
                   start_date, end_date, start, end, current, months>>

AddBack ==
    /\ pc = "added"
    /\ back' = add_months(res, -delta)
    /\ pc' = IF Raised(back') THEN "raised" ELSE "back"
    /\ UNCHANGED <<dt, delta, res, period, now, parsed,
                   start_date, end_date, start, end, current, months>>

NextAdd == AddMonths \/ AddBack

SpecAdd == InitAdd /\ [][NextAdd]_vars

-----------------------------------------------------------------------------
(* Properties of add_months.                                               *)

\* The number of the month of a datetime, counted from year 0.
MonthIndex(d) == 12 * d.year + d.month - 1

\* A month number whose year datetime can hold.
Representable(i) == i >= 12 * MINYEAR /\ i <= 12 * MAXYEAR + 11

Min(a, b) == IF a <= b THEN a ELSE b

\* What the claims say add_months(d, k) returns.
IsShifted(d, k, r) ==
    /\ ~Raised(r)
    /\ r.month \in 1..12
    /\ MonthIndex(r) = MonthIndex(d) + k
    /\ r.day = Min(d.day, DaysInMonth(r.year, r.month))
    /\ r.time = d.time

\* C6: whenever the target year is representable, add_months(d, n) is the
\* date in the month n months from d's, with the day min(d.day, days in
\* that month), for positive, zero and negative n.
C6_AddMonthsShifts ==
    /\ (pc # "call" /\ Representable(MonthIndex(dt) + delta))
           => IsShifted(dt, delta, res)
    /\ (pc \in {"back", "raised"} /\ ~Raised(res) /\ back # Unset
           /\ Representable(MonthIndex(res) - delta))
           => IsShifted(res, -delta, back)

\* C6 witness: a negative offset rolled the year back and day 31 was
\* clamped to the last day of February.
C6_Witness ==
    /\ pc = "added" /\ delta < 0 /\ res.year < dt.year
    /\ dt.day = 31 /\ res.month = 2 /\ res.day = DaysInMonth(res.year, 2)

\* C7: when neither step clamps the day, adding n months and then -n
\* months gives back the date.
C7_RoundTrip ==
    (pc = "back" /\ res.day = dt.day /\ back.day = res.day) => back = dt

\* C7 witness: a round trip across a year boundary with no clamping.
C7_Witness ==
    /\ pc = "back" /\ delta < 0 /\ res.year < dt.year
    /\ dt.day = 31 /\ res.day = 31 /\ back = dt

\* C9 as stated: add_months raises for no valid date and no offset.
C9_NeverRaises == pc # "raised"

\* C9 amended: add_months raises exactly when the target year is outside
\* MINYEAR..MAXYEAR; the clamping loop never runs out of days for a target
\* year datetime can hold.
C9_RaisesOnlyOutOfRange ==
    /\ pc # "call" => (Raised(res) <=> ~Representable(MonthIndex(dt) + delta))
    /\ (pc \in {"back", "raised"} /\ ~Raised(res))
           => (Raised(back) <=> ~Representable(MonthIndex(res) - delta))

\* C9 witness: the error escaped the loop for a date of year MAXYEAR, and
\* the loop had started from day 31.
C9_Witness ==
    /\ pc = "raised" /\ Raised(res)
    /\ dt.year = MAXYEAR /\ dt.day = 31 /\ delta > 0

-----------------------------------------------------------------------------
(* str: the operations of Python strings the module uses.                  *)

Digits == {"0", "1", "2", "3", "4", "5", "6", "7", "8", "9"}

DigitVal(c) ==
    CASE c = "0" -> 0 [] c = "1" -> 1 [] c = "2" -> 2 [] c = "3" -> 3
      [] c = "4" -> 4 [] c = "5" -> 5 [] c = "6" -> 6 [] c = "7" -> 7
      [] c = "8" -> 8 [] c = "9" -> 9

DigitChar(n) == CHOOSE c \in Digits : DigitVal(c) = n

\* str.isdigit: non-empty and digits only.
IsDigit(s) == Len(s) > 0 /\ \A i \in 1..Len(s) : s[i] \in Digits

\* The value of the first n characters of a string of digits.
RECURSIVE IntOfPrefix(_, _)
IntOfPrefix(s, n) ==
    IF n = 0 THEN 0 ELSE 10 * IntOfPrefix(s, n - 1) + DigitVal(s[n])

\* int(s) of a string that passed isdigit.
IntOfDigits(s) == IntOfPrefix(s, Len(s))

\* str(n) and f'{n}' of an int n >= 0: no padding.
RECURSIVE StrOfInt(_)
StrOfInt(n) ==
    IF n < 10 THEN <<DigitChar(n)>>
    ELSE StrOfInt(n \div 10) \o <<DigitChar(n % 10)>>

\* f'{n:02d}' and strftime's %m of an int n >= 0.
Pad2(n) == IF n < 10 THEN <<"0", DigitChar(n)>> ELSE StrOfInt(n)

\* The places of sep in s.
SepPos(s, sep) == {i \in 1..Len(s) : s[i] = sep}

\* The place of the k-th sep in s; 0 for k = 0, Len(s) + 1 past the last.
NthSep(s, sep, k) ==
    IF k = 0 THEN 0
    ELSE IF k > Cardinality(SepPos(s, sep)) THEN Len(s) + 1
    ELSE CHOOSE p \in SepPos(s, sep) :
             Cardinality({q \in SepPos(s, sep) : q < p}) = k - 1

\* s.split(sep) for a one-character sep: the pieces between the seps.
Split(s, sep) ==
    [k \in 1..(Cardinality(SepPos(s, sep)) + 1) |->
        SubSeq(s, NthSep(s, sep, k - 1) + 1, NthSep(s, sep, k) - 1)]

\* The letters the tokens are written with, in upper case, and str.lower
\* of each; every other character of the model is its own lower case.
LowerChar(c) ==
    CASE c = "A" -> "a" [] c = "D" -> "d" [] c = "L" -> "l" [] c = "Q" -> "q"
      [] c = "T" -> "t" [] c = "Y" -> "y" [] OTHER -> c

\* s.lower()
lower(s) == [i \in 1..Len(s) |-> LowerChar(s[i])]

\* The characters str.strip removes, among those of the model.
Whitespace == {" ", "\t", "\n"}

\* s.strip(): s without its leading and trailing whitespace.
strip(s) ==
    LET keep == {i \in 1..Len(s) : s[i] \notin Whitespace}
    IN  IF keep = {} THEN <<>>
        ELSE SubSeq(s, CHOOSE i \in keep : \A j \in keep : i <= j,
                       CHOOSE i \in keep : \A j \in keep : i >= j)

\* sep in s
Contains(s, sep) == \E i \in 1..Len(s) : s[i] = sep

\* Whether int(s) takes s, a string of the model's characters: surrounding
\* whitespace is ignored and the rest must be digits. (A sign or an
\* underscore, which int also takes, is no character of the model.)
IntLiteral(s) == IsDigit(strip(s))

\* int(s) of a string int takes.
PyInt(s) == IntOfDigits(strip(s))

\* The code point of a character of the model (str comparison is by code
\* point).
Ord(c) ==
    CASE c = "\t" -> 9 [] c = "\n" -> 10 [] c = " " -> 32 [] c = "-" -> 45
      [] c \in Digits -> 48 + DigitVal(c)
      [] c = "A" -> 65 [] c = "D" -> 68 [] c = "L" -> 76 [] c = "Q" -> 81
      [] c = "T" -> 84 [] c = "Y" -> 89
      [] c = "a" -> 97 [] c = "b" -> 98 [] c = "d" -> 100 [] c = "g" -> 103
      [] c = "l" -> 108 [] c = "o" -> 111 [] c = "q" -> 113
      [] c = "s" -> 115 [] c = "t" -> 116 [] c = "u" -> 117
      [] c = "y" -> 121

\* a <= b on str: lexicographic by code point.
StrLeq(a, b) ==
    \/ \E i \in 1..Len(a) :
          /\ i <= Len(b)
          /\ \A j \in 1..(i - 1) : a[j] = b[j]
          /\ Ord(a[i]) < Ord(b[i])
    \/ /\ Len(a) <= Len(b)
       /\ \A j \in 1..Len(a) : a[j] = b[j]

-----------------------------------------------------------------------------
(* generate_months                                                         *)

\* The field %m of strptime: 1[0-2]|0[1-9]|[1-9].
MonthField(s) ==
    /\ IsDigit(s) /\ Len(s) <= 2
    /\ IntOfDigits(s) \in 1..12

\* The field %d of strptime: 3[01]|[12]\d|0[1-9]|[1-9]| [1-9].
DayField(s) ==
    \/ IsDigit(s) /\ Len(s) <= 2 /\ IntOfDigits(s) \in 1..31
    \/ Len(s) = 2 /\ s[1] = " " /\ s[2] \in Digits \ {"0"}

DayOfField(s) == IF s[1] = " " THEN DigitVal(s[2]) ELSE IntOfDigits(s)

\* datetime.strptime(s, '%Y-%m-%d'): four digits of year, a month and a
\* day of one or two digits, then the datetime constructor's check. The
\* time of day of the result is midnight.
strptime(s) ==
    LET f == Split(s, "-")
    IN  IF ~(/\ Len(f) = 3
             /\ Len(f[1]) = 4 /\ IsDigit(f[1])
             /\ MonthField(f[2])
             /\ DayField(f[3]))
        THEN Raise("ValueError", "time data does not match format '%Y-%m-%d'")
        ELSE LET y == IntOfDigits(f[1])
                 m == IntOfDigits(f[2])
                 d == DayOfField(f[3])
             IN  IF ValidDate(y, m, d) THEN DateTime(y, m, d, 0)
                 ELSE Raise("ValueError", "day is out of range for month")

\* d.strftime('%Y-%m'): %Y is the year as the C library prints it, which
\* is four digits for every year from 1000 on; %m is two digits.
strftime(d) == StrOfInt(d.year) \o <<"-">> \o Pad2(d.month)

\* The ISO form YYYY-MM-DD of a date of a year from 1000 on.
IsoFormat(y, m, d) ==
    StrOfInt(y) \o <<"-">> \o Pad2(m) \o <<"-">> \o Pad2(d)

\* `if end_date`: None and the empty string are false.
Falsy(s) == s = None \/ s = <<>>

\* The days of the month the calls are tried with.
SampleDays == {1, 15, 28, 29, 30, 31}

GenYears == (YearLo..(YearLo + NumYears - 1)) \cup {MAXYEAR}

GenDays ==
    {t \in GenYears \X (1..12) \X SampleDays : ValidDate(t[1], t[2], t[3])}

\* Strings strptime takes apart differently from an ISO date: a short
\* form it accepts, a day the month does not have, and no date at all.
OddDateStrs ==
    { <<"2", "0", "2", "4", "-", "2", "-", "9">>,
      <<"2", "0", "2", "3", "-", "0", "2", "-", "2", "9">>,
      <<"2", "0", "2", "4", "-", "0", "2">> }

\* Seconds after midnight at which the clock is read.
NowTimes == {0, 12 * 3600}

MonthsApart(a, b) == (12 * b[1] + b[2]) - (12 * a[1] + a[2])

InitGen ==
    /\ pc = "idle"
    /\ start_date = Unset /\ end_date = Unset
    /\ start = Unset /\ end = Unset /\ current = Unset /\ months = Unset
    /\ dt = Unset /\ delta = Unset /\ res = Unset /\ back = Unset
    /\ period = Unset /\ now = Unset /\ parsed = Unset

\* A caller calls generate_months(start_date, end_date): with two ISO
\* dates at most MaxSpan months apart, with an open end, or with one of
\* the odd strings. The clock is drawn for the calls that read it, and is
\* then some moment within MaxSpan months of the start.
GenCall ==
    /\ pc = "idle"
    /\ \E s \in GenDays :
          \/ /\ start_date' = IsoFormat(s[1], s[2], s[3])
             /\ \E e \in GenDays :
                   /\ MonthsApart(s, e) \in (-MaxSpan)..MaxSpan
                   /\ end_date' = IsoFormat(e[1], e[2], e[3])
             /\ now' = Unset
          \/ /\ start_date' = IsoFormat(s[1], s[2], s[3])
             /\ end_date' \in (IF s[1] = YearLo /\ s[2] = 1
                               THEN {None, <<>>} ELSE {None})
             /\ \E n \in GenDays, t \in NowTimes :
                   /\ MonthsApart(s, n) \in (-MaxSpan)..MaxSpan
                   /\ now' = DateTime(n[1], n[2], n[3], t)
          \/ /\ s[1] = YearLo /\ s[2] = 1 /\ s[3] \in {1, 31}
             /\ \/ /\ start_date' \in OddDateStrs
                   /\ end_date' = IsoFormat(s[1], s[2], s[3])
                \/ /\ start_date' = IsoFormat(s[1], s[2], s[3])
                   /\ end_date' \in OddDateStrs
             /\ now' = Unset
    /\ pc' = "parse"
    /\ UNCHANGED <<start, end, current, months, dt, delta, res, back,
                   period, parsed>>

\* Lines 141-145. datetime.now() is read only when end_date is false.
GenParse ==
    /\ pc = "parse"
    /\ LET s == strptime(start_date)
           e == IF Falsy(end_date) THEN now ELSE strptime(end_date)
       IN  IF Raised(s)
           THEN /\ start' = s
                /\ pc' = "raised"
                /\ UNCHANGED <<end, current, months>>
           ELSE IF Raised(e)
           THEN /\ start' = s
                /\ end' = e
                /\ pc' = "raised"
                /\ UNCHANGED <<current, months>>
           ELSE /\ start' = s
                /\ end' = e
                /\ months' = <<>>
                /\ current' = s
                /\ pc' = "loop"
    /\ UNCHANGED <<start_date, end_date, now, dt, delta, res, back,
                   period, parsed>>

\* The loop body with the running date left where it is.
GenLoop_NoAdvance ==
    /\ pc = "loop"
    /\ DateLeq(current, end)
    /\ months' = Append(months, strftime(current))
    /\ LET next == add_months(current, 0)
       IN  IF Raised(next)
           THEN pc' = "raised" /\ UNCHANGED current
           ELSE pc' = "loop" /\ current' = next
    /\ UNCHANGED <<start_date, end_date, now, start, end, dt, delta, res,
                   back, period, parsed>>

\* Lines 146-148: one iteration; an error of add_months ends the call.
GenLoop ==
    /\ pc = "loop"
    /\ DateLeq(current, end)
    /\ months' = Append(months, strftime(current))
    /\ LET next == add_months(current, 1)
       IN  IF Raised(next)
           THEN pc' = "raised" /\ UNCHANGED current
           ELSE pc' = "loop" /\ current' = next
    /\ UNCHANGED <<start_date, end_date, now, start, end, dt, delta, res,
                   back, period, parsed>>

\* Lines 146 and 150: the loop condition fails and months is returned.
GenReturn ==
    /\ pc = "loop"
    /\ ~DateLeq(current, end)
    /\ pc' = "done"
    /\ UNCHANGED <<start_date, end_date, now, start, end, current, months,
                   dt, delta, res, back, period, parsed>>

NextGen == GenCall \/ GenParse \/ GenLoop \/ GenReturn

SpecGen == InitGen /\ [][NextGen]_vars

\* One evaluation of the loop condition and what follows it.
LoopStep == GenLoop \/ GenReturn

\* A call that reached the loop runs on: Python executes the next
\* statement of a running call.
FairSpecGen == SpecGen /\ WF_vars(LoopStep)

-----------------------------------------------------------------------------
(* Properties of generate_months.                                          *)

\* The month token YYYY-MM of month number i.
MonthToken(i) == StrOfInt(i \div 12) \o <<"-">> \o Pad2((i % 12) + 1)

\* The month number a month token names.
TokenIndex(tok) ==
    LET f == Split(tok, "-")
    IN  12 * IntOfDigits(f[1]) + IntOfDigits(f[2]) - 1

\* One token for each month from the month of a through the month of b.
ExpectedMonths(a, b) ==
    [i \in 1..(MonthIndex(b) - MonthIndex(a) + 1) |->
        MonthToken(MonthIndex(a) + i - 1)]

\* The call ended with the error of add_months, raised in the loop.
RaisedInLoop ==
    pc = "raised" /\ ~Raised(start) /\ end # Unset /\ ~Raised(end)

\* The call got past its two strptime calls and into the loop.
InLoop == pc \in {"loop", "done"} \/ RaisedInLoop

\* C1 as stated: for start <= end the returned list holds exactly the
\* months from the month of start through the month of end, whatever the
\* days of start and end.
C1_AllMonthsInclusive ==
    (pc = "done" /\ DateLeq(start, end)) => months = ExpectedMonths(start, end)

\* C8: the list is contiguous in calendar order, each token naming the
\* month right after the one before it, at every point of the loop and in
\* the returned list, also when the running day was clamped.
C8_Contiguous ==
    InLoop =>
        \A i \in 1..(Len(months) - 1) :
            TokenIndex(months[i + 1]) = TokenIndex(months[i]) + 1

\* C8 witness: a returned list of at least three months whose start day 31
\* was clamped on the way.
C8_Witness ==
    /\ pc = "done" /\ Len(months) >= 3
    /\ start.day = 31 /\ current.day < 31

SpanBound ==
    IF MonthIndex(end) < MonthIndex(start) THEN 0
    ELSE MonthIndex(end) - MonthIndex(start) + 1

\* The running date before an iteration is before the one after it.
StrictlyIncreases ==
    (pc = "loop" /\ pc' = "loop" /\ current' # current)
        => (DateLeq(current, current') /\ ~DateLeq(current', current))

-----------------------------------------------------------------------------
(* parse_period                                                            *)

\* Line 35.
DATA_START_DATE == <<"2", "0", "2", "2", "-", "0", "1", "-", "0", "1">>

\* A returned (start_date, end_date).
Range(s, e) == [start |-> s, end |-> e]

\* Line 120: raise ValueError(f"Invalid period format: {period}").
InvalidPeriod(p) ==
    [exc |-> "ValueError", msg |-> "Invalid period format", arg |-> p]

Q1 == <<"q", "1">>
Q2 == <<"q", "2">>
Q3 == <<"q", "3">>
Q4 == <<"q", "4">>

\* A quarters table whose second entry has its two dates exchanged.
quarters_swapped(q) ==
    CASE q = Q1 -> <<(<<"0", "1", "-", "0", "1">>), (<<"0", "3", "-", "3", "1">>)>>
      [] q = Q2 -> <<(<<"0", "6", "-", "3", "0">>), (<<"0", "4", "-", "0", "1">>)>>
      [] q = Q3 -> <<(<<"0", "7", "-", "0", "1">>), (<<"0", "9", "-", "3", "0">>)>>
      [] q = Q4 -> <<(<<"1", "0", "-", "0", "1">>), (<<"1", "2", "-", "3", "1">>)>>

\* Lines 83-88: the dict quarters, for a key q it holds.
quarters(q) ==
    CASE q = Q1 -> <<(<<"0", "1", "-", "0", "1">>), (<<"0", "3", "-", "3", "1">>)>>
      [] q = Q2 -> <<(<<"0", "4", "-", "0", "1">>), (<<"0", "6", "-", "3", "0">>)>>
      [] q = Q3 -> <<(<<"0", "7", "-", "0", "1">>), (<<"0", "9", "-", "3", "0">>)>>
      [] q = Q4 -> <<(<<"1", "0", "-", "0", "1">>), (<<"1", "2", "-", "3", "1">>)>>

\* `in quarters`, and what quarters.get gives a true value for.
InQuarters(q) == q \in {Q1, Q2, Q3, Q4}

Dash == <<"-">>

\* Lines 89-91: a quarter of the year y, y a str.
QuarterRange(y, q) ==
    Range(y \o Dash \o quarters(q)[1], y \o Dash \o quarters(q)[2])

\* Lines 95-98: year = int(period), printed by f'{year}' without padding.
ParseYear(p, current_year) ==
    LET year == IntOfDigits(p)
    IN  IF year = current_year
        THEN Range(StrOfInt(year) \o <<"-", "0", "1", "-", "0", "1">>, None)
        ELSE Range(StrOfInt(year) \o <<"-", "0", "1", "-", "0", "1">>,
                   StrOfInt(year) \o <<"-", "1", "2", "-", "3", "1">>)

\* (next_month - timedelta(days=1)).day for next_month the first of month
\* m of year y: the last day of the month before.
LastDayBefore(y, m) == IF m > 1 THEN DaysInMonth(y, m - 1) ELSE 31

\* Lines 108-111: int(year) and then the datetime constructor may raise
\* ValueError, and the subtraction OverflowError before MINYEAR.
EndOfMonth(year, month) ==
    IF ~IntLiteral(year)
    THEN Raise("ValueError", "invalid literal for int() with base 10")
    ELSE IF ~ValidDate(PyInt(year), IntOfDigits(month) + 1, 1)
    THEN Raise("ValueError", "year or month is out of range")
    ELSE IF PyInt(year) = MINYEAR /\ IntOfDigits(month) + 1 = 1
    THEN Raise("OverflowError", "date value out of range")
    ELSE Range(year \o Dash \o month \o <<"-", "0", "1">>,
               year \o Dash \o month \o Dash
                   \o Pad2(LastDayBefore(PyInt(year), IntOfDigits(month) + 1)))

\* Lines 105-111 without the case of December.
ParseMonth_NoDecember(year, month) == EndOfMonth(year, month)

\* Lines 105-111: month passed isdigit; year is any str.
ParseMonth(year, month) ==
    IF IntOfDigits(month) = 12
    THEN Range(year \o Dash \o month \o <<"-", "0", "1">>,
               year \o <<"-", "1", "2", "-", "3", "1">>)
    ELSE EndOfMonth(year, month)

\* Lines 101-118: a period of length 7 with a "-" in it.
ParseDashed(p) ==
    LET f == Split(p, "-")
    IN  IF Len(f) # 2
        THEN Raise("ValueError", "too many values to unpack (expected 2)")
        ELSE IF IsDigit(f[2]) THEN ParseMonth(f[1], f[2])
        ELSE IF /\ Len(f[2]) > 0 /\ f[2][1] = "q"
                /\ IsDigit(SubSeq(f[2], 2, Len(f[2])))
                /\ InQuarters(f[2])
        THEN QuarterRange(f[1], f[2])
        ELSE InvalidPeriod(p)

\* Line 72.
Normalise(p) == strip(lower(p))

\* Lines 69-120, after line 72; clock is what datetime.now() returned.
ParseNormalised(p, clock) ==
    IF p = <<"a", "l", "l">> THEN Range(DATA_START_DATE, None)
    ELSE IF p = <<"y", "t", "d">>
    THEN Range(StrOfInt(clock.year) \o <<"-", "0", "1", "-", "0", "1">>, None)
    ELSE IF InQuarters(p) THEN QuarterRange(StrOfInt(clock.year), p)
    ELSE IF IsDigit(p) /\ Len(p) = 4 THEN ParseYear(p, clock.year)
    ELSE IF Contains(p, "-") /\ Len(p) = 7 THEN ParseDashed(p)
    ELSE InvalidPeriod(p)

parse_period(p, clock) == ParseNormalised(Normalise(p), clock)

-----------------------------------------------------------------------------
(* Calls of parse_period(period), the clock read at line 69.               *)

\* Every string of these characters up to MaxTokLen long is tried.
TokChars == {"0", "1", "2", "-", "q"}

PlainTokens == UNION {[1..n -> TokChars] : n \in 0..MaxTokLen}

YearDigits == {"0", "1", "2", "9"}

YearStrs == [1..4 -> YearDigits]

\* Every YYYY-MM of these years and of two digits MM.
MonthTokens == {y \o Dash \o m : y \in YearStrs, m \in [1..2 -> Digits]}

\* Every YYYY-qN of these years and of a digit N.
QuarterTokens == {y \o <<"-", "q", d>> : y \in YearStrs, d \in Digits}

WordTokens ==
    { <<"a", "l", "l">>, <<"y", "t", "d">>, Q1, Q2, Q3, Q4,
      <<"q", "5">>, <<"q">>, <<"a", "l">>, <<"y", "t", "d", "s">>,
      <<"b", "o", "g", "u", "s">>, <<"a", "l", "l", "-", "y", "t", "d">>,
      <<"2", "0", "2", "0", " ", "0", "1">>,
      <<"2", "0", "2", " ", "-", "0", "1">>,
      <<"a", "b", "-", "0", "0", "1", "2">> }

UpperChar(c) ==
    CASE c = "a" -> "A" [] c = "d" -> "D" [] c = "l" -> "L" [] c = "q" -> "Q"
      [] c = "t" -> "T" [] c = "y" -> "Y" [] OTHER -> c

upper(s) == [i \in 1..Len(s) |-> UpperChar(s[i])]

\* A token as a user may type it: in upper case, with whitespace around.
Typed(t) == {upper(t), <<" ">> \o t, t \o <<"\n">>, <<"\t">> \o upper(t) \o <<" ", " ">>}

ParseTokens ==
    PlainTokens \cup MonthTokens \cup YearStrs \cup QuarterTokens
        \cup WordTokens
        \cup UNION {Typed(t) : t \in WordTokens \cup QuarterTokens \cup YearStrs}

\* The moments the clock is read at: in a leap year and on the last day
\* of a year.
ParseClocks == {DateTime(2020, 2, 29, 0), DateTime(2019, 12, 31, 12 * 3600)}

InitParse ==
    /\ pc = "call"
    /\ period \in ParseTokens
    /\ now \in ParseClocks
    /\ parsed = Unset
    /\ dt = Unset /\ delta = Unset /\ res = Unset /\ back = Unset
    /\ start_date = Unset /\ end_date = Unset
    /\ start = Unset /\ end = Unset /\ current = Unset /\ months = Unset

\* Lines 69-120.
ParsePeriod ==
    /\ pc = "call"
    /\ parsed' = parse_period(period, now)
    /\ pc' = IF Raised(parsed') THEN "raised" ELSE "returned"
    /\ UNCHANGED <<period, now, dt, delta, res, back,
                   start_date, end_date, start, end, current, months>>

NextParse == ParsePeriod

SpecParse == InitParse /\ [][NextParse]_vars

-----------------------------------------------------------------------------
(* Properties of parse_period.                                             *)

\* The call has ended, with a range or with an error.
Parsed == pc \in {"returned", "raised"}

\* A str of exactly four digits.
IsYear(s) == Len(s) = 4 /\ IsDigit(s)

\* The shapes YYYY-MM, MM a calendar month, and YYYY-qN, N in 1..4.
IsYearMonth(p) ==
    /\ Len(p) = 7 /\ p[5] = "-"
    /\ IsYear(SubSeq(p, 1, 4))
    /\ IsDigit(SubSeq(p, 6, 7)) /\ IntOfDigits(SubSeq(p, 6, 7)) \in 1..12

IsYearQuarter(p) ==
    /\ Len(p) = 7 /\ p[5] = "-"
    /\ IsYear(SubSeq(p, 1, 4))
    /\ SubSeq(p, 6, 7) \in {Q1, Q2, Q3, Q4}

\* The recognised shapes of a lowercased and trimmed token.
Recognised(p) ==
    \/ p \in {<<"a", "l", "l">>, <<"y", "t", "d">>, Q1, Q2, Q3, Q4}
    \/ IsYear(p)
    \/ IsYearMonth(p)
    \/ IsYearQuarter(p)

\* C2 as stated, in what it says last: a token of no recognised shape
\* gets no range; the call fails.
C2_NoRangeForUnrecognised ==
    (Parsed /\ ~Recognised(Normalise(period))) => pc = "raised"

\* C3 as stated: a token of four digits YYYY gets the start YYYY-01-01,
\* with the token's own four digits, and an end that is open in the
\* clock's year and YYYY-12-31 in every other.
C3_YearKeepsItsDigits ==
    (Parsed /\ IsYear(Normalise(period))) =>
        /\ pc = "returned"
        /\ parsed.start = Normalise(period) \o <<"-", "0", "1", "-", "0", "1">>
        /\ parsed.end =
              IF IntOfDigits(Normalise(period)) = now.year THEN None
              ELSE Normalise(period) \o <<"-", "1", "2", "-", "3", "1">>

\* C4: a token YYYY-MM of a year from MINYEAR to MAXYEAR and a calendar
\* month gets the start YYYY-MM-01 and as end the last day of that month
\* of that year, YYYY-MM-DD.
C4_MonthRange ==
    LET p == Normalise(period)
        y == IntOfDigits(SubSeq(p, 1, 4))
        m == IntOfDigits(SubSeq(p, 6, 7))
    IN  (Parsed /\ IsYearMonth(p) /\ y \in MINYEAR..MAXYEAR) =>
            /\ pc = "returned"
            /\ parsed.start = p \o <<"-", "0", "1">>
            /\ parsed.end = p \o Dash \o StrOfInt(DaysInMonth(y, m))

\* C4 witness: February of a century year that is no leap year.
C4_Witness ==
    /\ pc = "returned"
    /\ period = <<"2", "1", "0", "0", "-", "0", "2">>
    /\ parsed.end = <<"2", "1", "0", "0", "-", "0", "2", "-", "2", "8">>

\* C5: every returned range with an end that is not open has
\* start <= end, as the strings compare.
C5_StartNotAfterEnd ==
    (pc = "returned" /\ parsed.end # None) => StrLeq(parsed.start, parsed.end)

\* C5 witness: a range of the second quarter of a given year, typed in
\* upper case, with a start before its end.
C5_Witness ==
    /\ pc = "returned"
    /\ period = <<"2", "0", "1", "9", "-", "Q", "2">>
    /\ parsed = Range(<<"2", "0", "1", "9", "-", "0", "4", "-", "0", "1">>,
                      <<"2", "0", "1", "9", "-", "0", "6", "-", "3", "0">>)
    /\ ~StrLeq(parsed.end, parsed.start)

=============================================================================
